---- MODULE Spec2Model ----
(***************************************************************************)
(* Model of Image-Auto-Clicker.py: the ImageClickerApp start/stop          *)
(* transitions, the search_and_click_worker thread(s), the hotkey          *)
(* listener, the area selection and the Tk event queue (self.after).       *)
(*                                                                         *)
(* Real numbers are kept in tenths: 0.8 is 8, 2.6 is 26.  Settings are     *)
(* texts (sequences of characters) that float() parses each cycle.         *)
(***************************************************************************)
EXTENDS Integers, Sequences, FiniteSets, TLC

(***************************************************************************)
(* Bounds of the model.                                                    *)
(***************************************************************************)
MaxWorkers == 2     \* threads start_script may create in one behaviour
MaxEdits == 1       \* texts the user types into the entries in one behaviour
MaxQueue == 1       \* pending self.after(0, ...) callbacks

(***************************************************************************)
(* Program constants (tenths).                                             *)
(***************************************************************************)
default_threshold == 8
default_post_click_delay == 26
default_idle_delay == 5
default_smooth_duration == <<"0", ".", "5">>
default_instant_delay == <<"0", ".", "1">>
default_stop_key == <<"e", "s", "c">>
MinDrag == 10

\* self.search_region = None, and a rectangle (left, top, width, height)
None == [some |-> FALSE, left |-> 0, top |-> 0, width |-> 0, height |-> 0]
Region(l, t, w, h) == [some |-> TRUE, left |-> l, top |-> t, width |-> w, height |-> h]

(***************************************************************************)
(* float(text) and str(float).                                             *)
(***************************************************************************)
DigitVal ==
  ("0" :> 0) @@ ("1" :> 1) @@ ("2" :> 2) @@ ("3" :> 3) @@ ("4" :> 4) @@
  ("5" :> 5) @@ ("6" :> 6) @@ ("7" :> 7) @@ ("8" :> 8) @@ ("9" :> 9)

IsDigit(c) == c \in DOMAIN DigitVal

RECURSIVE DigitsValue(_)
\* the integer a sequence of digits denotes
DigitsValue(ds) ==
  IF ds = <<>> THEN 0
  ELSE 10 * DigitsValue(SubSeq(ds, 1, Len(ds) - 1)) + DigitVal[ds[Len(ds)]]

RECURSIVE Strip(_)
\* float() ignores leading and trailing blanks
Strip(t) ==
  IF t = <<>> THEN t
  ELSE IF t[1] = " " THEN Strip(Tail(t))
  ELSE IF t[Len(t)] = " " THEN Strip(SubSeq(t, 1, Len(t) - 1))
  ELSE t

\* float(t): [ok |-> FALSE] stands for ValueError, otherwise val is the value
\* in tenths.  Covers [sign] digits [. digits]; the texts of the model carry
\* at most one fractional digit, further ones are cut.
ParseFloat(t) ==
  LET s == Strip(t)
      signed == s # <<>> /\ s[1] \in {"-", "+"}
      body == IF signed THEN Tail(s) ELSE s
      sign == IF signed /\ s[1] = "-" THEN -1 ELSE 1
      dots == {i \in 1..Len(body) : body[i] = "."}
      dot == IF dots = {} THEN Len(body) + 1 ELSE CHOOSE i \in dots : TRUE
      ipart == SubSeq(body, 1, dot - 1)
      fpart == SubSeq(body, dot + 1, Len(body))
      wellformed == /\ Cardinality(dots) <= 1
                    /\ \A i \in 1..Len(ipart) : IsDigit(ipart[i])
                    /\ \A i \in 1..Len(fpart) : IsDigit(fpart[i])
                    /\ Len(ipart) + Len(fpart) > 0
  IN IF wellformed
       THEN [ok |-> TRUE,
             val |-> sign * (10 * DigitsValue(ipart)
                             + (IF fpart = <<>> THEN 0 ELSE DigitVal[fpart[1]]))]
       ELSE [ok |-> FALSE, val |-> 0]

\* one decimal digit as a character
DigitChar(d) == CHOOSE c \in DOMAIN DigitVal : DigitVal[c] = d

\* str(x) for the floats 0.0 .. 9.9 held in tenths
StrFloat(x) == <<DigitChar(x \div 10), ".", DigitChar(x % 10)>>


(***************************************************************************)
(* Inputs: the image folder on disk, the texts a user types, the keys,     *)
(* the drags of the area selection, the screen.                            *)
(***************************************************************************)
fA == [name |-> "a.png", ext |-> "png", decodes |-> TRUE, w |-> 5, h |-> 3]
fA2 == [name |-> "a.jpeg", ext |-> "jpeg", decodes |-> TRUE, w |-> 5, h |-> 3]
fB == [name |-> "b.jpg", ext |-> "jpg", decodes |-> TRUE, w |-> 4, h |-> 4]
fBig == [name |-> "big.png", ext |-> "png", decodes |-> TRUE, w |-> 12, h |-> 12]
fBad == [name |-> "bad.png", ext |-> "png", decodes |-> FALSE, w |-> 0, h |-> 0]
fTxt == [name |-> "notes.txt", ext |-> "txt", decodes |-> FALSE, w |-> 0, h |-> 0]

\* a folder: whether it is a directory, and its files in enumeration order
Dir(files) == [isdir |-> TRUE, files |-> files]
NoDir == [isdir |-> FALSE, files |-> <<>>]
Folders == {NoDir, Dir(<<fTxt>>), Dir(<<fBad>>), Dir(<<fB, fBad, fA>>),
            Dir(<<fA2, fB, fBig>>)}

TypedKeys == {<<"Q">>}

\* a pressed key: a KeyCode carries char (NoName: None, a dead key), a Key a name
NoName == <<>>
Keys == {[code |-> TRUE, char |-> <<"q">>, name |-> NoName],
         [code |-> TRUE, char |-> NoName, name |-> NoName],
         [code |-> FALSE, char |-> NoName, name |-> <<"e", "s", "c">>],
         [code |-> FALSE, char |-> NoName, name |-> <<"f", "1">>]}

\* press and release points of a drag on the selection overlay
Drags == {<<<<100, 50>>, <<300, 250>>>>,    \* the area (100, 50, 200, 200)
          <<<<60, 11>>, <<0, 0>>>>,         \* backwards: the area (0, 0, 60, 11)
          <<<<0, 0>>, <<10, 40>>>>}         \* 10 wide: too thin

Screen == [w |-> 400, h |-> 300]
\* pyautogui.FAILSAFE_POINTS
FailSafePoint == <<0, 0>>
UserPoints == {FailSafePoint, <<7, 7>>}

\* what cv2.minMaxLoc may report: confidence (tenths) and top-left corner
Confidences == {5, 8}
Corners == {<<0, 0>>, <<28, 39>>}

Workers == 1..MaxWorkers

VARIABLES
  is_running,      \* self.is_running
  templates,       \* self.templates: sequence of [name, w, h]
  search_region,   \* self.search_region: None or [left, top, width, height]
  tkvar,           \* the StringVars: threshold_var, ..., move_mode, stop_key_var
  status_label,    \* text of self.status_label
  info_label,      \* text of self.info_label
  after_queue,     \* callbacks scheduled with self.after(0, ...)
  pointer,         \* position of the mouse pointer
  pc,              \* per worker thread: where it is in search_and_click_worker
  loc,             \* per worker thread: its local variables
  obs,             \* per worker thread: what it did in the current cycle
  cancelled,       \* per worker thread: stop_script cleared is_running while it ran
  last_call,       \* outcome of the last start_script / stop_script call
  edits            \* number of edits of the entries so far

vars == <<is_running, templates, search_region, tkvar,
          status_label, info_label, after_queue, pointer, pc, loc, obs,
          cancelled, last_call, edits>>

(***************************************************************************)
(* Status texts.  A text of the translations table is its key (the same    *)
(* in both languages), with the format arguments of info_found.            *)
(***************************************************************************)
Text(key) == [key |-> key, filename |-> "", x |-> 0, y |-> 0]
Found(filename, x, y) == [key |-> "info_found", filename |-> filename, x |-> x, y |-> y]

Callback(fn, arg) == [fn |-> fn, arg |-> arg]
NoArg == Text("")

(***************************************************************************)
(* load_templates                                                          *)
(***************************************************************************)
Glob(folder, ext) == SelectSeq(folder.files, LAMBDA f : f.ext = ext)

ImagePaths(folder) == Glob(folder, "png") \o Glob(folder, "jpg") \o Glob(folder, "jpeg")

RECURSIVE Decoded(_)
\* the (filename, template) pairs of the files cv2.imread decodes, in order
Decoded(paths) ==
  IF paths = <<>> THEN <<>>
  ELSE LET f == Head(paths)
       IN (IF f.decodes THEN <<[name |-> f.name, w |-> f.w, h |-> f.h]>> ELSE <<>>)
          \o Decoded(Tail(paths))

\* load_templates without the check of lines 485-487
load_templates_unchecked(folder) ==
  IF ~folder.isdir THEN [ok |-> FALSE, templates |-> <<>>]
  ELSE IF ImagePaths(folder) = <<>> THEN [ok |-> FALSE, templates |-> <<>>]
  ELSE [ok |-> TRUE, templates |-> Decoded(ImagePaths(folder))]

\* the return value of load_templates and the list it leaves in self.templates
load_templates(folder) ==
  IF ~folder.isdir THEN [ok |-> FALSE, templates |-> <<>>]
  ELSE IF ImagePaths(folder) = <<>> THEN [ok |-> FALSE, templates |-> <<>>]
  ELSE LET ts == Decoded(ImagePaths(folder))
       IN [ok |-> ts # <<>>, templates |-> ts]

(***************************************************************************)
(* Worker locals.                                                          *)
(***************************************************************************)
NoSettings == [threshold |-> 0, post_click_delay |-> 0, idle_delay |-> 0,
               smooth_duration |-> 0, instant_delay |-> 0, mode |-> ""]

InitLoc == [settings |-> NoSettings,
            found_this_cycle |-> FALSE,
            frame |-> [w |-> 0, h |-> 0],  \* size of screen_gray
            list |-> <<>>,           \* the list the for loop iterates
            i |-> 0,                 \* index of the current template in it
            max_val |-> 0, max_loc |-> <<0, 0>>,
            center |-> <<0, 0>>,
            cond |-> None, r0 |-> None, r1 |-> None,  \* reads of search_region
            click_x |-> 0, click_y |-> 0,
            sleep_left |-> 0]        \* of the time.sleep call it is blocked in

InitObs == [captures |-> 0,          \* screenshots taken in this cycle
            region |-> None,         \* search_region of the screenshot
            matched |-> <<>>,        \* per matchTemplate call: [i, conf]
            notes |-> <<>>,          \* per info_found message: [i, x, y]
            moves |-> <<>>,          \* per moveTo call: [i, x, y]
            clicks |-> <<>>]         \* per click call: [i, x, y]

\* the StringVars as __init__ creates them
DefaultVars ==
  [threshold_var |-> StrFloat(default_threshold),
   post_click_delay_var |-> StrFloat(default_post_click_delay),
   idle_delay_var |-> StrFloat(default_idle_delay),
   smooth_duration_var |-> default_smooth_duration,
   instant_delay_var |-> default_instant_delay,
   move_mode |-> "smooth",
   stop_key_var |-> default_stop_key]

\* the application before its first start, with the given StringVars and
\* search area (__init__ leaves DefaultVars and None; config.ini may have
\* held other numbers, and the user may have picked the other radio button
\* and dragged an area since)
Idle0(stringvars, region) ==
  /\ is_running = FALSE
  /\ templates = <<>>
  /\ search_region = region
  /\ tkvar = stringvars
  /\ status_label = Text("status_stopped")
  /\ info_label = Text("info_waiting")
  /\ after_queue = <<>>
  /\ pointer = <<7, 7>>
  /\ pc = [w \in Workers |-> "unstarted"]
  /\ loc = [w \in Workers |-> InitLoc]
  /\ obs = [w \in Workers |-> InitObs]
  /\ cancelled = [w \in Workers |-> FALSE]
  /\ last_call = "none"
  /\ edits = 0

\* the state __init__ leaves
Init == Idle0(DefaultVars, None)

(***************************************************************************)
(* start_script and stop_script (UI thread).                               *)
(***************************************************************************)
\* the threads of `pool` that threading.Thread has not created yet
FreeWorkers(pool) == {w \in pool : pc[w] = "unstarted"}

\* start_script reloading the templates before the test of line 492
start_script_reload(folder, pool) ==
  LET r == load_templates(folder)
  IN IF is_running
       THEN /\ templates' = r.templates
            /\ last_call' = "start_noop"
            /\ UNCHANGED <<is_running, status_label, info_label, pc>>
       ELSE IF ~r.ok
         THEN /\ templates' = r.templates
              /\ last_call' = "start_refused"
              /\ UNCHANGED <<is_running, status_label, info_label, pc>>
         ELSE /\ FreeWorkers(pool) # {}
              /\ templates' = r.templates
              /\ is_running' = TRUE
              /\ status_label' = Text("status_running")
              /\ info_label' = Text("info_searching")
              /\ LET w == CHOOSE v \in FreeWorkers(pool) :
                              \A u \in FreeWorkers(pool) : v <= u
                 IN pc' = [pc EXCEPT ![w] = "while"]
              /\ last_call' = "start_ok"

start_script(folder, pool) ==
  IF is_running
    THEN /\ last_call' = "start_noop"
         /\ UNCHANGED <<is_running, templates, status_label, info_label, pc>>
    ELSE LET r == load_templates(folder)
         IN IF ~r.ok
              THEN /\ templates' = r.templates
                   /\ last_call' = "start_refused"
                   /\ UNCHANGED <<is_running, status_label, info_label, pc>>
              ELSE /\ FreeWorkers(pool) # {}
                   /\ templates' = r.templates
                   /\ is_running' = TRUE
                   /\ status_label' = Text("status_running")
                   /\ info_label' = Text("info_searching")
                   /\ LET w == CHOOSE v \in FreeWorkers(pool) :
                                   \A u \in FreeWorkers(pool) : v <= u
                      IN pc' = [pc EXCEPT ![w] = "while"]
                   /\ last_call' = "start_ok"

\* a thread that was started and has not ended
Live(w) == pc[w] \notin {"unstarted", "finished", "crashed"}

\* stop_script without the guard of line 508
stop_script_unguarded ==
  /\ is_running' = FALSE
  /\ status_label' = Text("status_stopped")
  /\ info_label' = Text("info_stopped")
  /\ cancelled' = [w \in Workers |-> cancelled[w] \/ Live(w)]
  /\ last_call' = IF is_running THEN "stop_ok" ELSE "stop_noop"

stop_script ==
  IF ~is_running
    THEN /\ last_call' = "stop_noop"
         /\ UNCHANGED <<is_running, status_label, info_label, cancelled>>
    ELSE /\ is_running' = FALSE
         /\ status_label' = Text("status_stopped")
         /\ info_label' = Text("info_stopped")
         /\ cancelled' = [w \in Workers |-> cancelled[w] \/ Live(w)]
         /\ last_call' = "stop_ok"

Start(folder, pool) ==
  /\ start_script(folder, pool)
  /\ UNCHANGED <<search_region, tkvar, after_queue, pointer, loc, obs, cancelled, edits>>

Stop ==
  /\ stop_script
  /\ UNCHANGED <<templates, search_region, tkvar, after_queue, pointer,
                 pc, loc, obs, edits>>


(***************************************************************************)
(* The other UI handlers (UI thread) and the user.                         *)
(***************************************************************************)
Entries == {"threshold_var", "post_click_delay_var", "idle_delay_var",
            "smooth_duration_var", "instant_delay_var"}

\* toggle_move_settings leaves one of the two movement entries disabled
Editable(field) ==
  CASE field = "smooth_duration_var" -> tkvar.move_mode = "smooth"
    [] field = "instant_delay_var" -> tkvar.move_mode # "smooth"
    [] OTHER -> TRUE

\* the user types into an entry
SetText(field, text) ==
  /\ edits < MaxEdits
  /\ Editable(field)
  /\ tkvar[field] # text
  /\ tkvar' = [tkvar EXCEPT ![field] = text]
  /\ edits' = edits + 1
  /\ UNCHANGED <<is_running, templates, search_region, status_label,
                 info_label, after_queue, pointer, pc, loc, obs, cancelled, last_call>>

SetStopKey(text) ==
  /\ edits < MaxEdits
  /\ tkvar.stop_key_var # text
  /\ tkvar' = [tkvar EXCEPT !.stop_key_var = text]
  /\ edits' = edits + 1
  /\ UNCHANGED <<is_running, templates, search_region, status_label,
                 info_label, after_queue, pointer, pc, loc, obs, cancelled, last_call>>

\* the user picks a radio button
SetMode(mode) ==
  /\ tkvar.move_mode # mode
  /\ tkvar' = [tkvar EXCEPT !.move_mode = mode]
  /\ UNCHANGED <<is_running, templates, search_region, status_label,
                 info_label, after_queue, pointer, pc, loc, obs, cancelled, last_call, edits>>

Min(a, b) == IF a <= b THEN a ELSE b
Abs(a) == IF a < 0 THEN -a ELSE a

\* the rectangle on_mouse_release computes from the press and release points
DragRect(drag) ==
  LET start == drag[1]
      end == drag[2]
  IN Region(Min(start[1], end[1]), Min(start[2], end[2]),
            Abs(start[1] - end[1]), Abs(start[2] - end[2]))

\* the test of line 550 with >= for >
DragAccepted_atleast(drag) ==
  DragRect(drag).width >= MinDrag /\ DragRect(drag).height >= MinDrag

DragAccepted(drag) == DragRect(drag).width > MinDrag /\ DragRect(drag).height > MinDrag

on_mouse_release(drag) ==
  /\ search_region' = IF DragAccepted(drag) THEN DragRect(drag) ELSE search_region
  /\ UNCHANGED <<is_running, templates, tkvar, status_label, info_label,
                 after_queue, pointer, pc, loc, obs, cancelled, last_call, edits>>

reset_search_area ==
  /\ search_region' = None
  /\ UNCHANGED <<is_running, templates, tkvar, status_label, info_label,
                 after_queue, pointer, pc, loc, obs, cancelled, last_call, edits>>

\* switch_language with the update_ui_text it calls
switch_language ==
  /\ status_label' = Text(IF is_running THEN "status_running" ELSE "status_stopped")
  /\ info_label' = IF ~is_running THEN Text("info_waiting") ELSE info_label
  /\ search_region' = None
  /\ UNCHANGED <<is_running, templates, tkvar, after_queue, pointer, pc, loc, obs,
                 cancelled, last_call, edits>>

\* the user moves the mouse
UserMove(p) ==
  /\ pointer # p
  /\ pointer' = p
  /\ UNCHANGED <<is_running, templates, search_region, tkvar, status_label,
                 info_label, after_queue, pc, loc, obs, cancelled, last_call, edits>>

(***************************************************************************)
(* The keyboard listener thread.                                           *)
(***************************************************************************)
LowerChar(c) ==
  CASE c = "Q" -> "q"
    [] c = "E" -> "e"
    [] c = "S" -> "s"
    [] c = "C" -> "c"
    [] c = "F" -> "f"
    [] OTHER -> c

Lower(t) == [i \in 1..Len(t) |-> LowerChar(t[i])]

_get_key_name(key) == IF key.code THEN key.char ELSE key.name

\* the comparison of line 609 without the two lower() calls
StopKeyPressed_exact(key) ==
  LET pressed_key_name == _get_key_name(key)
  IN pressed_key_name # NoName /\ pressed_key_name = tkvar.stop_key_var

StopKeyPressed(key) ==
  LET pressed_key_name == _get_key_name(key)
  IN pressed_key_name # NoName /\ Lower(pressed_key_name) = Lower(tkvar.stop_key_var)

\* a listener that stops the run itself instead of scheduling stop_script
on_key_press_direct(key) ==
  /\ IF is_running /\ StopKeyPressed(key)
       THEN stop_script
       ELSE UNCHANGED <<is_running, status_label, info_label, cancelled, last_call>>
  /\ UNCHANGED <<templates, search_region, tkvar, after_queue, pointer, pc,
                 loc, obs, edits>>

on_key_press(key) ==
  /\ IF is_running /\ StopKeyPressed(key)
       THEN /\ Len(after_queue) < MaxQueue
            /\ after_queue' = Append(after_queue, Callback("stop_script", NoArg))
       ELSE UNCHANGED after_queue
  /\ UNCHANGED <<is_running, templates, search_region, tkvar, status_label,
                 info_label, pointer, pc, loc, obs, cancelled, last_call, edits>>

(***************************************************************************)
(* The Tk main loop runs the oldest callback scheduled with after(0, ...). *)
(***************************************************************************)
update_info_label(message) == info_label' = message

RunCallback ==
  /\ after_queue # <<>>
  /\ after_queue' = Tail(after_queue)
  /\ LET cb == Head(after_queue)
     IN IF cb.fn = "stop_script"
          THEN stop_script
          ELSE /\ update_info_label(cb.arg)
               /\ UNCHANGED <<is_running, status_label, cancelled, last_call>>
  /\ UNCHANGED <<templates, search_region, tkvar, pointer, pc, loc, obs,
                 edits>>


(***************************************************************************)
(* search_and_click_worker, one action per step of a thread.               *)
(*                                                                         *)
(*   while          line 622, and the settings of lines 623-635            *)
(*   capture        lines 638-639                                          *)
(*   for_init       line 640, the evaluation of self.templates             *)
(*   for            lines 640-641, the next template and the break         *)
(*   match          lines 643-647                                          *)
(*   translate,     line 648: the three reads of self.search_region        *)
(*   translate_x,                                                          *)
(*   translate_y                                                           *)
(*   notify         lines 649-650                                          *)
(*   move           lines 653-654 / 657                                    *)
(*   instant_sleep  line 658, instant_wait while blocked in it             *)
(*   click          line 655 / 659                                         *)
(*   post_sleep     lines 661-663, post_wait while blocked in it           *)
(*   idle           lines 669-671, idle_wait while blocked in it           *)
(*   finished       line 672;  crashed: ended by an uncaught exception     *)
(***************************************************************************)
WorkerFrame == <<is_running, templates, search_region, tkvar,
                 status_label, info_label, last_call, edits>>

Goto(w, label) == pc' = [pc EXCEPT ![w] = label]

\* a fallback to zero instead of the default
FloatOr_zero(text, default) ==
  LET r == ParseFloat(text) IN IF r.ok THEN r.val ELSE 0

\* try: float(text) / except ValueError: default
FloatOr(text, default) ==
  LET r == ParseFloat(text) IN IF r.ok THEN r.val ELSE default

\* lines 625-635
ReadSettings ==
  [threshold |-> FloatOr(tkvar.threshold_var, default_threshold),
   post_click_delay |-> FloatOr(tkvar.post_click_delay_var, default_post_click_delay),
   idle_delay |-> FloatOr(tkvar.idle_delay_var, default_idle_delay),
   smooth_duration |-> FloatOr(tkvar.smooth_duration_var,
                               ParseFloat(default_smooth_duration).val),
   instant_delay |-> FloatOr(tkvar.instant_delay_var,
                             ParseFloat(default_instant_delay).val),
   mode |-> tkvar.move_mode]

\* the thread ends: its locals are gone
Ended(w, label) ==
  /\ Goto(w, label)
  /\ loc' = [loc EXCEPT ![w] = InitLoc]
  /\ obs' = [obs EXCEPT ![w] = InitObs]
  /\ cancelled' = [cancelled EXCEPT ![w] = FALSE]

\* a loop that never tests the Run State at line 622
While_forever(w) ==
  /\ pc[w] = "while"
  /\ loc' = [loc EXCEPT ![w] = [InitLoc EXCEPT !.settings = ReadSettings]]
  /\ obs' = [obs EXCEPT ![w] = InitObs]
  /\ Goto(w, "capture")
  /\ UNCHANGED <<WorkerFrame, after_queue, pointer, cancelled>>

\* the loop with the settings read once, when the thread starts
While_once(w) ==
  /\ pc[w] = "while"
  /\ IF is_running
       THEN /\ loc' = [loc EXCEPT ![w] =
                        [InitLoc EXCEPT !.settings =
                           IF loc[w].settings = NoSettings
                             THEN ReadSettings ELSE loc[w].settings]]
            /\ obs' = [obs EXCEPT ![w] = InitObs]
            /\ Goto(w, "capture")
            /\ UNCHANGED cancelled
       ELSE Ended(w, "finished")
  /\ UNCHANGED <<WorkerFrame, after_queue, pointer>>

While(w) ==
  /\ pc[w] = "while"
  /\ IF is_running
       THEN /\ loc' = [loc EXCEPT ![w] = [InitLoc EXCEPT !.settings = ReadSettings]]
            /\ obs' = [obs EXCEPT ![w] = InitObs]
            /\ Goto(w, "capture")
            /\ UNCHANGED cancelled
       ELSE Ended(w, "finished")
  /\ UNCHANGED <<WorkerFrame, after_queue, pointer>>

\* the size of pyautogui.screenshot(region=...)
FrameOf(region) ==
  IF region.some THEN [w |-> region.width, h |-> region.height] ELSE Screen

\* pyautogui.screenshot returns or raises (outside any try: the thread ends)
Capture(w, grabbed) ==
  /\ pc[w] = "capture"
  /\ IF grabbed
       THEN /\ loc' = [loc EXCEPT ![w].frame = FrameOf(search_region)]
            /\ obs' = [obs EXCEPT ![w].captures = @ + 1, ![w].region = search_region]
            /\ Goto(w, "for_init")
            /\ UNCHANGED cancelled
       ELSE Ended(w, "crashed")
  /\ UNCHANGED <<WorkerFrame, after_queue, pointer>>

ForInit(w) ==
  /\ pc[w] = "for_init"
  /\ loc' = [loc EXCEPT ![w].list = templates, ![w].i = 0]
  /\ Goto(w, "for")
  /\ UNCHANGED <<WorkerFrame, after_queue, pointer, obs, cancelled>>

\* the template loop without the break of line 641
For_unchecked(w) ==
  /\ pc[w] = "for"
  /\ IF loc[w].i + 1 > Len(loc[w].list)
       THEN /\ Goto(w, "idle")
            /\ UNCHANGED loc
       ELSE /\ loc' = [loc EXCEPT ![w].i = @ + 1]
            /\ Goto(w, "match")
  /\ UNCHANGED <<WorkerFrame, after_queue, pointer, obs, cancelled>>

\* next(iterator), then line 641
For(w) ==
  /\ pc[w] = "for"
  /\ IF loc[w].i + 1 > Len(loc[w].list)
       THEN /\ Goto(w, "idle")
            /\ UNCHANGED loc
       ELSE /\ loc' = [loc EXCEPT ![w].i = @ + 1]
            /\ IF ~is_running THEN Goto(w, "idle") ELSE Goto(w, "match")
  /\ UNCHANGED <<WorkerFrame, after_queue, pointer, obs, cancelled>>

\* cv2.matchTemplate raises when the template exceeds the image
Fits(t, frame) == t.w <= frame.w /\ t.h <= frame.h

\* the corners minMaxLoc can report for template t in the frame
CornersIn(t, frame) ==
  {c \in Corners : c[1] + t.w <= frame.w /\ c[2] + t.h <= frame.h}

\* line 645
Accepted(max_val, threshold) == max_val >= threshold

\* the centre with the halves rounded up
Center_ceil(max_loc, t) ==
  <<max_loc[1] + (t.w + 1) \div 2, max_loc[2] + (t.h + 1) \div 2>>

\* line 647
Center(max_loc, t) == <<max_loc[1] + t.w \div 2, max_loc[2] + t.h \div 2>>

\* except Exception (line 665): log, go on with the next template
Except(w) == Goto(w, "for")

\* a matcher that reports confidence 0 for a template exceeding the frame
Match_zero(w, max_val, max_loc) ==
  /\ pc[w] = "match"
  /\ LET t == loc[w].list[loc[w].i]
         val == IF Fits(t, loc[w].frame) THEN max_val ELSE 0
         at == IF Fits(t, loc[w].frame) THEN max_loc ELSE <<0, 0>>
     IN /\ Fits(t, loc[w].frame) => max_loc \in CornersIn(t, loc[w].frame)
        /\ obs' = [obs EXCEPT ![w].matched =
                     Append(@, [i |-> loc[w].i, raised |-> FALSE, conf |-> val])]
        /\ IF Accepted(val, loc[w].settings.threshold)
             THEN /\ loc' = [loc EXCEPT ![w].max_val = val,
                                        ![w].max_loc = at,
                                        ![w].center = Center(at, t)]
                  /\ Goto(w, "translate")
             ELSE /\ UNCHANGED loc
                  /\ Goto(w, "for")
  /\ UNCHANGED <<WorkerFrame, after_queue, pointer, cancelled>>

Match(w, max_val, max_loc) ==
  /\ pc[w] = "match"
  /\ LET t == loc[w].list[loc[w].i]
     IN IF ~Fits(t, loc[w].frame)
          THEN /\ obs' = [obs EXCEPT ![w].matched =
                            Append(@, [i |-> loc[w].i, raised |-> TRUE, conf |-> 0])]
               /\ UNCHANGED loc
               /\ Except(w)
          ELSE /\ max_loc \in CornersIn(t, loc[w].frame)
               /\ obs' = [obs EXCEPT ![w].matched =
                            Append(@, [i |-> loc[w].i, raised |-> FALSE, conf |-> max_val])]
               /\ IF Accepted(max_val, loc[w].settings.threshold)
                    THEN /\ loc' = [loc EXCEPT ![w].max_val = max_val,
                                               ![w].max_loc = max_loc,
                                               ![w].center = Center(max_loc, t)]
                         /\ Goto(w, "translate")
                    ELSE /\ UNCHANGED loc
                         /\ Goto(w, "for")
  /\ UNCHANGED <<WorkerFrame, after_queue, pointer, cancelled>>

\* line 648: ... if self.search_region else (center_x, center_y)
Translate(w) ==
  /\ pc[w] = "translate"
  /\ IF search_region.some
       THEN /\ loc' = [loc EXCEPT ![w].cond = search_region]
            /\ Goto(w, "translate_x")
       ELSE /\ loc' = [loc EXCEPT ![w].cond = search_region,
                                  ![w].click_x = loc[w].center[1],
                                  ![w].click_y = loc[w].center[2]]
            /\ Goto(w, "notify")
  /\ UNCHANGED <<WorkerFrame, after_queue, pointer, obs, cancelled>>

\* line 648: self.search_region[0] + center_x (TypeError on None)
TranslateX(w) ==
  /\ pc[w] = "translate_x"
  /\ IF search_region.some
       THEN /\ loc' = [loc EXCEPT ![w].r0 = search_region,
                                  ![w].click_x = search_region.left + loc[w].center[1]]
            /\ Goto(w, "translate_y")
       ELSE /\ UNCHANGED loc
            /\ Except(w)
  /\ UNCHANGED <<WorkerFrame, after_queue, pointer, obs, cancelled>>

\* line 648: self.search_region[1] + center_y (TypeError on None)
TranslateY(w) ==
  /\ pc[w] = "translate_y"
  /\ IF search_region.some
       THEN /\ loc' = [loc EXCEPT ![w].r1 = search_region,
                                  ![w].click_y = search_region.top + loc[w].center[2]]
            /\ Goto(w, "notify")
       ELSE /\ UNCHANGED loc
            /\ Except(w)
  /\ UNCHANGED <<WorkerFrame, after_queue, pointer, obs, cancelled>>

\* lines 649-650 left out: the action goes on with no message
Notify_silent(w) ==
  /\ pc[w] = "notify"
  /\ Goto(w, "move")
  /\ UNCHANGED <<WorkerFrame, after_queue, pointer, loc, obs, cancelled>>

\* lines 649-650
Notify(w) ==
  /\ pc[w] = "notify"
  /\ Len(after_queue) < MaxQueue
  /\ after_queue' = Append(after_queue,
       Callback("update_info_label",
                Found(loc[w].list[loc[w].i].name,
                      loc[w].click_x, loc[w].click_y)))
  /\ obs' = [obs EXCEPT ![w].notes =
               Append(@, [i |-> loc[w].i, x |-> loc[w].click_x,
                          y |-> loc[w].click_y])]
  /\ Goto(w, "move")
  /\ UNCHANGED <<WorkerFrame, pointer, loc, cancelled>>

\* pyautogui's fail-safe check at the start of moveTo and click
FailSafe == pointer = FailSafePoint

\* lines 654 / 657
Move(w) ==
  /\ pc[w] = "move"
  /\ IF FailSafe
       THEN /\ Except(w)
            /\ UNCHANGED <<pointer, obs>>
       ELSE /\ pointer' = <<loc[w].click_x, loc[w].click_y>>
            /\ obs' = [obs EXCEPT ![w].moves =
                         Append(@, [i |-> loc[w].i, x |-> loc[w].click_x,
                                    y |-> loc[w].click_y])]
            /\ IF loc[w].settings.mode = "smooth"
                 THEN Goto(w, "click")
                 ELSE Goto(w, "instant_sleep")
  /\ UNCHANGED <<WorkerFrame, after_queue, loc, cancelled>>

\* time.sleep(d) raises ValueError for d < 0
SleepRaises(d) == d < 0

\* line 658
InstantSleep(w) ==
  /\ pc[w] = "instant_sleep"
  /\ IF SleepRaises(loc[w].settings.instant_delay)
       THEN /\ Except(w)
            /\ UNCHANGED loc
       ELSE /\ loc' = [loc EXCEPT ![w].sleep_left = loc[w].settings.instant_delay]
            /\ Goto(w, "instant_wait")
  /\ UNCHANGED <<WorkerFrame, after_queue, pointer, obs, cancelled>>

\* a click that is given up when the Run State has been cleared
Click_polled(w) ==
  /\ pc[w] = "click"
  /\ IF ~is_running
       THEN /\ Goto(w, "idle")
            /\ UNCHANGED obs
       ELSE IF FailSafe
         THEN /\ Except(w)
              /\ UNCHANGED obs
         ELSE /\ obs' = [obs EXCEPT ![w].clicks =
                           Append(@, [i |-> loc[w].i, x |-> pointer[1], y |-> pointer[2]])]
              /\ Goto(w, "post_sleep")
  /\ UNCHANGED <<WorkerFrame, after_queue, pointer, loc, cancelled>>

\* lines 655 / 659: a click where the pointer is
Click(w) ==
  /\ pc[w] = "click"
  /\ IF FailSafe
       THEN /\ Except(w)
            /\ UNCHANGED obs
       ELSE /\ obs' = [obs EXCEPT ![w].clicks =
                         Append(@, [i |-> loc[w].i, x |-> pointer[1], y |-> pointer[2]])]
            /\ Goto(w, "post_sleep")
  /\ UNCHANGED <<WorkerFrame, after_queue, pointer, loc, cancelled>>

\* lines 662-663
PostSleep(w) ==
  /\ pc[w] = "post_sleep"
  /\ IF SleepRaises(loc[w].settings.post_click_delay)
       THEN /\ loc' = [loc EXCEPT ![w].found_this_cycle = TRUE]
            /\ Except(w)
       ELSE /\ loc' = [loc EXCEPT ![w].found_this_cycle = TRUE,
                                  ![w].sleep_left = loc[w].settings.post_click_delay]
            /\ Goto(w, "post_wait")
  /\ UNCHANGED <<WorkerFrame, after_queue, pointer, obs, cancelled>>

\* lines 669-671
Idle(w) ==
  /\ pc[w] = "idle"
  /\ IF ~loc[w].found_this_cycle /\ is_running
       THEN /\ Len(after_queue) < MaxQueue
            /\ after_queue' = Append(after_queue,
                 Callback("update_info_label", Text("info_searching")))
            /\ IF SleepRaises(loc[w].settings.idle_delay)
                 THEN Ended(w, "crashed")
                 ELSE /\ loc' = [loc EXCEPT ![w].sleep_left = loc[w].settings.idle_delay]
                      /\ UNCHANGED <<obs, cancelled>>
                      /\ Goto(w, "idle_wait")
       ELSE /\ Goto(w, "while")
            /\ UNCHANGED <<after_queue, loc, obs, cancelled>>
  /\ UNCHANGED <<WorkerFrame, pointer>>

Waits == {"instant_wait", "post_wait", "idle_wait"}

\* where a thread goes on when its time.sleep returns
AfterWait(label) ==
  CASE label = "instant_wait" -> "click"
    [] label = "post_wait" -> "idle"       \* the break of line 664
    [] label = "idle_wait" -> "while"

\* the time of a blocked time.sleep passes
Elapse(w) ==
  /\ pc[w] \in Waits
  /\ loc[w].sleep_left > 0
  /\ loc' = [loc EXCEPT ![w].sleep_left = 0]
  /\ UNCHANGED <<WorkerFrame, after_queue, pointer, pc, obs, cancelled>>

\* time.sleep returns once its time has passed
Wake(w) ==
  /\ pc[w] \in Waits
  /\ loc[w].sleep_left = 0
  /\ Goto(w, AfterWait(pc[w]))
  /\ UNCHANGED <<WorkerFrame, after_queue, pointer, loc, obs, cancelled>>

\* one step of thread w; `grabs` are the outcomes of the screenshot call,
\* `confs` and `corners` the results minMaxLoc may report
Worker(w, grabs, confs, corners) ==
  \/ While(w)
  \/ \E grabbed \in grabs : Capture(w, grabbed)
  \/ ForInit(w)
  \/ For(w)
  \/ \E max_val \in confs, max_loc \in corners : Match(w, max_val, max_loc)
  \/ Translate(w)
  \/ TranslateX(w)
  \/ TranslateY(w)
  \/ Notify(w)
  \/ Move(w)
  \/ InstantSleep(w)
  \/ Click(w)
  \/ PostSleep(w)
  \/ Idle(w)
  \/ Elapse(w)
  \/ Wake(w)

FolderAB == Dir(<<fB, fBad, fA>>)
DragR1 == <<<<100, 50>>, <<300, 250>>>>
R1 == DragRect(DragR1)

(***************************************************************************)
(* Spec: starts, stops and the stop key in any order, with up to           *)
(* MaxWorkers threads; instant movement within a selected area.            *)
(***************************************************************************)
InstantVars == [DefaultVars EXCEPT !.move_mode = "instant"]

InitRuns == Idle0(InstantVars, R1)

Next ==
  \/ \E folder \in {NoDir, Dir(<<fTxt>>), Dir(<<fBad>>), FolderAB} : Start(folder, Workers)
  \/ Stop
  \/ \E key \in Keys : on_key_press(key)
  \/ RunCallback
  \/ \E w \in Workers : Worker(w, {TRUE}, {8}, {<<0, 0>>})

Spec == InitRuns /\ [][Next]_vars

(***************************************************************************)
(* SpecKeys: one run with starts, stops, key presses and a new stop key.   *)
(***************************************************************************)
NextKeys ==
  \/ \E folder \in Folders : Start(folder, {1})
  \/ Stop
  \/ \E text \in TypedKeys : SetStopKey(text)
  \/ \E key \in Keys : on_key_press(key)
  \/ RunCallback
  \/ \E w \in {1} : Worker(w, {TRUE}, Confidences, {<<0, 0>>})

SpecKeys == InitRuns /\ [][NextKeys]_vars

(***************************************************************************)
(* SpecSettings: one run during which the user edits the settings.         *)
(* config.ini held threshold 0.5, post_click_delay 0.3, idle_delay 0.2.    *)
(***************************************************************************)
ConfigVars ==
  [DefaultVars EXCEPT !.threshold_var = <<"0", ".", "5">>,
                      !.post_click_delay_var = <<"0", ".", "3">>,
                      !.idle_delay_var = <<"0", ".", "2">>]

Typed ==
  {<<"threshold_var", <<"0", ".", "8">>>>, <<"threshold_var", <<"a", "b", "c">>>>,
   <<"post_click_delay_var", <<>>>>, <<"post_click_delay_var", <<"-", "1">>>>,
   <<"idle_delay_var", <<"1", ".", ".", "0">>>>, <<"idle_delay_var", <<"-", "1">>>>,
   <<"smooth_duration_var", <<"a", "b", "c">>>>, <<"smooth_duration_var", <<" ", "2">>>>,
   <<"instant_delay_var", <<"0", ",", "5">>>>, <<"instant_delay_var", <<"-", "1">>>>}

InitSettings == Idle0(ConfigVars, R1)

NextSettings ==
  \/ \E folder \in {FolderAB} : Start(folder, {1})
  \/ Stop
  \/ \E ft \in Typed : SetText(ft[1], ft[2])
  \/ \E mode \in {"smooth", "instant"} : SetMode(mode)
  \/ RunCallback
  \/ \E w \in {1} : Worker(w, BOOLEAN, Confidences, {<<0, 0>>})

SpecSettings == InitSettings /\ [][NextSettings]_vars

(***************************************************************************)
(* SpecArea: one run (instant movement) during which the user selects and  *)
(* resets the search area and switches the language.                       *)
(***************************************************************************)
DragThin == <<<<0, 0>>, <<10, 40>>>>

InitArea == Idle0(InstantVars, None)

NextArea ==
  \/ \E folder \in {FolderAB} : Start(folder, {1})
  \/ Stop
  \/ \E drag \in {DragR1, DragThin} : on_mouse_release(drag)
  \/ reset_search_area
  \/ switch_language
  \/ RunCallback
  \/ \E w \in {1} : Worker(w, {TRUE}, {8}, Corners)

SpecArea == InitArea /\ [][NextArea]_vars

(***************************************************************************)
(* SpecPointer: one run, in either movement mode, during which the user    *)
(* moves the mouse.                                                        *)
(***************************************************************************)
InitPointer == Idle0(DefaultVars, R1) \/ Idle0(InstantVars, R1)

NextPointer ==
  \/ \E folder \in {FolderAB} : Start(folder, {1})
  \/ Stop
  \/ \E p \in UserPoints : UserMove(p)
  \/ RunCallback
  \/ \E w \in {1} : Worker(w, {TRUE}, Confidences, {<<0, 0>>})

SpecPointer == InitPointer /\ [][NextPointer]_vars


(***************************************************************************)
(* SpecOversize: one run in a selected area that is lower than one of the  *)
(* templates, with any threshold text.                                     *)
(***************************************************************************)
DragLow == <<<<60, 11>>, <<0, 0>>>>
RLow == DragRect(DragLow)
FolderBig == Dir(<<fA2, fB, fBig>>)      \* templates [big.png, b.jpg, a.jpeg]

InitOversize == Idle0(InstantVars, RLow)

NextOversize ==
  \/ \E folder \in {FolderBig} : Start(folder, {1})
  \/ Stop
  \/ \E text \in {<<"-", "1">>, <<"0", ".", "5">>} : SetText("threshold_var", text)
  \/ RunCallback
  \/ \E w \in {1} : Worker(w, {TRUE}, Confidences, {<<0, 0>>})

SpecOversize == InitOversize /\ [][NextOversize]_vars

(***************************************************************************)
(* SpecFair: two runs with their two threads, where every thread that can  *)
(* take a step is scheduled (each call it makes returns) and the Tk main   *)
(* loop runs the callbacks scheduled with after(0, ...).                   *)
(***************************************************************************)
Pair == {1, 2}

NextFair ==
  \/ \E folder \in {Dir(<<fBad>>), FolderAB} : Start(folder, Pair)
  \/ Stop
  \/ \E key \in Keys : on_key_press(key)
  \/ RunCallback
  \/ \E w \in Pair : Worker(w, {TRUE}, {8}, {<<0, 0>>})

Fairness ==
  /\ WF_vars(RunCallback)
  /\ \A w \in Pair : WF_vars(Worker(w, {TRUE}, {8}, {<<0, 0>>}))

SpecFair == InitRuns /\ [][NextFair]_vars /\ Fairness

(***************************************************************************)
(* Properties.                                                             *)
(***************************************************************************)
IsImage(f) == f.ext \in {"png", "jpg", "jpeg"}

\* the folder does not exist, holds no image file, or none of them decodes
LoadFails(folder) ==
  \/ ~folder.isdir
  \/ \A i \in 1..Len(folder.files) : ~IsImage(folder.files[i])
  \/ \A i \in 1..Len(folder.files) : IsImage(folder.files[i]) => ~folder.files[i].decodes

\* C1: a start from Idle whose template load fails (no such folder, no image
\* file in it, or no file that decodes) is refused: the Run State stays
\* not-running, no worker thread is dispatched, and neither the status nor the
\* info label changes and nothing is scheduled for them.
C1_StartRefused ==
  [][\A folder \in Folders :
       (~is_running /\ LoadFails(folder) /\ Start(folder, {1}))
         => /\ is_running' = FALSE
            /\ pc' = pc
            /\ status_label' = status_label
            /\ info_label' = info_label
            /\ after_queue' = after_queue
            /\ last_call' = "start_refused"]_vars

C1_Witness == last_call = "start_refused" /\ ~is_running

\* what a misused transition leaves alone
Untouched ==
  /\ is_running' = is_running
  /\ templates' = templates
  /\ pc' = pc
  /\ status_label' = status_label
  /\ info_label' = info_label

\* C2: start_script while running and stop_script while not running (from the
\* button or from the callback the stop key scheduled) change neither the Run
\* State, nor the template list, nor the worker threads, nor the labels, and
\* schedule nothing.
C2_MisuseNoOp ==
  [][/\ \A folder \in Folders :
          (is_running /\ Start(folder, {1}))
            => (Untouched /\ after_queue' = after_queue)
     /\ (~is_running /\ Stop) => (Untouched /\ after_queue' = after_queue)
     /\ (~is_running /\ after_queue # <<>> /\ Head(after_queue).fn = "stop_script"
           /\ RunCallback)
            => (Untouched /\ after_queue' = Tail(after_queue))]_vars

C2_Witness ==
  /\ last_call = "start_noop"
  /\ is_running
  /\ \E w \in Workers : Live(w)

\* the k-th matchTemplate call of w's cycle met the cycle's threshold
AcceptedAt(w, k) ==
  /\ ~obs[w].matched[k].raised
  /\ obs[w].matched[k].conf >= loc[w].settings.threshold

\* the template that comes first in load order among those accepted
IsFirstAccepted(w, i) ==
  \E k \in 1..Len(obs[w].matched) :
    /\ obs[w].matched[k].i = i
    /\ AcceptedAt(w, k)
    /\ \A j \in 1..(k - 1) : ~AcceptedAt(w, j)

\* C3: in every cycle the template acted upon (every relocation and every
\* click) is the first one in load order whose confidence is >= the cycle's
\* threshold, and once a template has been accepted no later template is
\* matched in that cycle.
C3_FirstMatchWins ==
  \A w \in Workers :
    /\ \A k \in 1..Len(obs[w].matched) :
         AcceptedAt(w, k) => k = Len(obs[w].matched)
    /\ \A n \in 1..Len(obs[w].moves) : IsFirstAccepted(w, obs[w].moves[n].i)
    /\ \A n \in 1..Len(obs[w].clicks) : IsFirstAccepted(w, obs[w].clicks[n].i)

\* the positions of a thread in which its action has a computed target
Dispatching == {"notify", "move", "instant_sleep", "instant_wait", "click",
                "post_sleep", "post_wait"}

\* the target the Coordinate translation rule gives for w's accepted match
TargetOf(w) ==
  LET t == loc[w].list[loc[w].i]
      mx == loc[w].max_loc[1]
      my == loc[w].max_loc[2]
  IN IF loc[w].cond.some
       THEN <<loc[w].cond.left + mx + t.w \div 2, loc[w].cond.top + my + t.h \div 2>>
       ELSE <<mx + t.w \div 2, my + t.h \div 2>>

\* line 648 read one Search Region value in its three reads
OneRegionRead(w) ==
  loc[w].cond.some => (loc[w].r0 = loc[w].cond /\ loc[w].r1 = loc[w].cond)

\* C4: for an accepted match with top-left (mx,my) and template size (w,h) the
\* target of the action is (mx + w div 2, my + h div 2) when no Search Region
\* is active and (left + mx + w div 2, top + my + h div 2) when one is, and the
\* relocation goes to that target.
C4_Translation ==
  \A w \in Workers :
    (pc[w] \in Dispatching /\ OneRegionRead(w)) =>
      /\ <<loc[w].click_x, loc[w].click_y>> = TargetOf(w)
      /\ pc[w] \notin {"notify", "move"} =>
           /\ obs[w].moves # <<>>
           /\ LET m == obs[w].moves[Len(obs[w].moves)]
              IN <<m.i, m.x, m.y>> = <<loc[w].i, TargetOf(w)[1], TargetOf(w)[2]>>

\* region left=100, top=50 and centre (30,40): the pointer was sent to (130,90)
C4_Witness ==
  \E w \in Workers :
    /\ pc[w] = "click"
    /\ loc[w].cond = R1
    /\ loc[w].center = <<30, 40>>
    /\ obs[w].moves = <<[i |-> 1, x |-> 130, y |-> 90]>>

\* the action that began with w's n-th relocation of the cycle is over
ActionOver(w, n) ==
  \/ n < Len(obs[w].moves)
  \/ pc[w] \notin {"instant_sleep", "instant_wait", "click"}

\* C5: in both movement modes every dispatched action ends with exactly one
\* click, delivered at the target the pointer was relocated to, whatever
\* happens to the pointer between the relocation and the click.
C5_OneClickAtTarget ==
  \A w \in Workers :
    \A n \in 1..Len(obs[w].moves) :
      ActionOver(w, n) =>
        LET m == obs[w].moves[n]
            of_m == {k \in 1..Len(obs[w].clicks) : obs[w].clicks[k].i = m.i}
        IN /\ Cardinality(of_m) = 1
           /\ \A k \in of_m : <<obs[w].clicks[k].x, obs[w].clicks[k].y>> = <<m.x, m.y>>

\* C6: a worker that was active when a Stop cleared the Run State exits its
\* loop at the first polling point it reaches afterwards: at the loop condition
\* it ends, at the check before a match it breaks out of the for loop, and at
\* the check before the idle wait it skips the wait, whatever UI events
\* (including a Start) came in between.
C6_ExitAtNextPoll ==
  [][\A w \in Workers :
       cancelled[w] =>
         /\ (pc[w] = "while" /\ pc'[w] # "while") => pc'[w] = "finished"
         /\ (pc[w] = "for" /\ pc'[w] # "for") => pc'[w] = "idle"
         /\ (pc[w] = "idle" /\ pc'[w] # "idle") => pc'[w] = "while"]_vars

\* C7: a worker that is inside its idle_delay or post_click_delay wait when
\* Stop is requested can leave the wait at once, without the remaining
\* duration having to elapse.
C7_WaitInterruptible ==
  \A w \in Workers :
    (cancelled[w] /\ ~is_running /\ pc[w] \in {"idle_wait", "post_wait"})
      => ENABLED Wake(w)

\* C8: a worker thread never terminates while the Run State is running; after
\* a failed capture the loop goes on with the next cycle.
C8_EndsOnlyByStop ==
  [][\A w \in Workers :
       /\ (Live(w) /\ pc'[w] \in {"finished", "crashed"}) => ~is_running
       /\ (pc[w] = "capture" /\ pc'[w] # "capture" /\ obs'[w].captures = 0)
            => pc'[w] = "while"]_vars

\* what Python's float() gives for the texts typed here, in tenths
TypedValue(text) ==
  CASE text = <<"0", ".", "1">> -> [ok |-> TRUE, val |-> 1]
    [] text = <<"0", ".", "2">> -> [ok |-> TRUE, val |-> 2]
    [] text = <<"0", ".", "3">> -> [ok |-> TRUE, val |-> 3]
    [] text = <<"0", ".", "5">> -> [ok |-> TRUE, val |-> 5]
    [] text = <<"0", ".", "8">> -> [ok |-> TRUE, val |-> 8]
    [] text = <<" ", "2">> -> [ok |-> TRUE, val |-> 20]
    [] text = <<"-", "1">> -> [ok |-> TRUE, val |-> -10]
    [] OTHER -> [ok |-> FALSE, val |-> 0]   \* "", "abc", "1..0", "0,5"

\* thread w begins a cycle in this step
BeginsCycle(w) == pc[w] = "while" /\ pc'[w] = "capture"

\* C9: the settings are read at the start of every cycle from the texts as they
\* are then (so a change made while running is used by the next cycle), they
\* stay the same for the whole cycle, and every template of the cycle is
\* accepted or not against the threshold read at the cycle's start.
C9_ReadEachCycle ==
  [][\A w \in Workers :
       /\ BeginsCycle(w) =>
            /\ TypedValue(tkvar.threshold_var).ok =>
                 loc'[w].settings.threshold = TypedValue(tkvar.threshold_var).val
            /\ loc'[w].settings.mode = tkvar.move_mode
       /\ (pc[w] \notin {"unstarted", "while"}
             /\ pc'[w] \notin {"finished", "crashed"}) =>
            loc'[w].settings = loc[w].settings
       /\ (pc[w] = "match" /\ pc'[w] # "match") =>
            LET e == obs'[w].matched[Len(obs'[w].matched)]
            IN ~e.raised =>
                 (pc'[w] = "translate" <=> e.conf >= loc[w].settings.threshold)]_vars

\* a cycle that goes on with threshold 0.5 after the text has become 0.8
C9_Witness ==
  \E w \in Workers :
    /\ is_running
    /\ pc[w] = "match"
    /\ loc[w].settings.threshold = 5
    /\ tkvar.threshold_var = <<"0", ".", "8">>

\* the value a cycle must use for a setting with this text and this default
Fallback(text, documented) ==
  IF TypedValue(text).ok THEN TypedValue(text).val ELSE documented

\* C10: a cycle that starts while the text of a numeric setting is unparseable
\* runs (it is not aborted) with that setting's documented default (0.8, 2.6,
\* 0.5, 0.5, 0.1) and with the parsed values of the other settings; the texts
\* are parsed again at the start of every cycle.
C10_FallbackToDefault ==
  [][\A w \in Workers :
       (pc[w] = "while" /\ is_running /\ pc'[w] # "while") =>
         /\ pc'[w] = "capture"
         /\ loc'[w].settings.threshold = Fallback(tkvar.threshold_var, 8)
         /\ loc'[w].settings.post_click_delay = Fallback(tkvar.post_click_delay_var, 26)
         /\ loc'[w].settings.idle_delay = Fallback(tkvar.idle_delay_var, 5)
         /\ loc'[w].settings.smooth_duration = Fallback(tkvar.smooth_duration_var, 5)
         /\ loc'[w].settings.instant_delay = Fallback(tkvar.instant_delay_var, 1)]_vars

\* a cycle running with the default 2.6 for an empty text and the parsed 0.5
C10_Witness ==
  \E w \in Workers :
    /\ pc[w] = "capture"
    /\ tkvar.post_click_delay_var = <<>>
    /\ loc[w].settings.post_click_delay = 26
    /\ loc[w].settings.threshold = 5

\* the template thread w is about to match is wider or higher than its frame
Oversize(w) ==
  LET t == loc[w].list[loc[w].i]
  IN t.w > loc[w].frame.w \/ t.h > loc[w].frame.h

\* the match of thread w in this step dispatches nothing
NothingDispatched(w) ==
  /\ pc'[w] = "for"
  /\ loc'[w].i = loc[w].i
  /\ obs'[w].moves = obs[w].moves
  /\ obs'[w].clicks = obs[w].clicks
  /\ pointer' = pointer
  /\ after_queue' = after_queue

RunsStopRequest ==
  /\ after_queue # <<>>
  /\ Head(after_queue).fn = "stop_script"
  /\ RunCallback

\* C12: the Run State is written only by the Start and Stop transitions on the
\* UI thread (the buttons, or the stop request the Tk main loop runs); no step
\* of a worker thread writes it, and a key press writes neither it nor any UI
\* state: at most it appends one stop request to the queue of the UI thread.
C12_SingleWriter ==
  [][/\ is_running' # is_running =>
          \/ \E folder \in Folders : Start(folder, {1})
          \/ Stop
          \/ RunsStopRequest
     /\ \A w \in Workers :
          Worker(w, BOOLEAN, Confidences, Corners) => is_running' = is_running
     /\ \A key \in Keys :
          on_key_press(key) =>
            /\ UNCHANGED <<is_running, status_label, info_label, templates,
                           search_region, tkvar, last_call>>
            /\ \/ after_queue' = after_queue
               \/ after_queue' = Append(after_queue, Callback("stop_script", NoArg))]_vars

\* a stop request of the key listener is queued and the run is still running
C12_Witness ==
  /\ is_running
  /\ after_queue # <<>>
  /\ Head(after_queue).fn = "stop_script"
  /\ \E w \in Workers : Live(w)

\* thread w's step is the except clause of line 665 catching an exception
Raised(w) ==
  \/ /\ pc[w] = "match"
     /\ pc'[w] = "for"
     /\ obs'[w].matched[Len(obs'[w].matched)].raised
  \/ /\ pc[w] \in {"translate_x", "translate_y", "move", "instant_sleep",
                   "click", "post_sleep"}
     /\ pc'[w] = "for"

\* C13: an exception raised while matching or acting on one template skips
\* only that template: the thread goes on with the for loop over the same
\* list at the same position, and the template counts as not matched (the
\* cycle has found nothing because of it).
C13_SkipsOnlyThatTemplate ==
  [][\A w \in Workers :
       (Live(w) /\ Raised(w)) =>
         /\ pc'[w] = "for"
         /\ loc'[w].list = loc[w].list
         /\ loc'[w].i = loc[w].i
         /\ ~loc'[w].found_this_cycle]_vars

\* thread w is inside a cycle, with the settings it read at the cycle's start
InCycle(w) == pc[w] \notin {"unstarted", "while", "finished", "crashed"}

\* C14: the settings a cycle uses lie in the documented ranges: threshold in
\* (0, 1], and post_click_delay, idle_delay, smooth_duration and instant_delay
\* not below 0 (values in tenths).
C14_SettingsInRange ==
  \A w \in Workers :
    InCycle(w) =>
      /\ 0 < loc[w].settings.threshold
      /\ loc[w].settings.threshold <= 10
      /\ loc[w].settings.post_click_delay >= 0
      /\ loc[w].settings.idle_delay >= 0
      /\ loc[w].settings.smooth_duration >= 0
      /\ loc[w].settings.instant_delay >= 0

\* C15 as stated: the Found notification of a template is never emitted
\* before the click on it has been issued.
C15_FoundAfterClick ==
  \A w \in Workers :
    \A k \in 1..Len(obs[w].notes) :
      \E n \in 1..Len(obs[w].clicks) : obs[w].clicks[n].i = obs[w].notes[k].i

\* the message, relocation or click e of thread w's cycle has this entry in s
Has(s, e) == \E k \in 1..Len(s) : s[k] = e

\* C15, amended: in a found cycle the coordinates are translated, then the
\* Found{identifier, x, y} notification is sent to the UI, then the pointer is
\* moved to that target and the click is issued, then the worker waits
\* post_click_delay: every relocation is to the target of a notification sent
\* before it, every click follows the relocation for its template, and the
\* wait follows the click.
C15_FoundBeforeAction ==
  \A w \in Workers :
    /\ \A k \in 1..Len(obs[w].notes) :
         /\ obs[w].notes[k].i \in 1..loc[w].i
         /\ pc[w] = "move" /\ obs[w].notes[k].i = loc[w].i =>
              <<obs[w].notes[k].x, obs[w].notes[k].y>> = <<loc[w].click_x, loc[w].click_y>>
    /\ pc[w] = "move" => Has(obs[w].notes, [i |-> loc[w].i, x |-> loc[w].click_x,
                                            y |-> loc[w].click_y])
    /\ \A n \in 1..Len(obs[w].moves) : Has(obs[w].notes, obs[w].moves[n])
    /\ \A n \in 1..Len(obs[w].clicks) :
         \E k \in 1..Len(obs[w].moves) : obs[w].moves[k].i = obs[w].clicks[n].i
    /\ pc[w] \in {"post_sleep", "post_wait"} =>
         \E n \in 1..Len(obs[w].clicks) : obs[w].clicks[n].i = loc[w].i

\* a found cycle in its post-click wait: one message, one relocation, one click
C15_Witness ==
  \E w \in Workers :
    /\ pc[w] = "post_wait"
    /\ obs[w].notes = <<[i |-> 1, x |-> 102, y |-> 51]>>
    /\ obs[w].moves = obs[w].notes
    /\ obs[w].clicks = obs[w].notes

\* C16: during a cycle of a worker the template list it iterates is not
\* cleared, replaced or appended to: from the start of the cycle until the for
\* loop takes the list (line 640) self.templates stays as it is, and from then
\* on the list under iteration stays as it is.
C16_StoreImmutableInCycle ==
  [][\A w \in Workers :
       (InCycle(w) /\ pc'[w] \notin {"while", "finished", "crashed"}) =>
         IF pc[w] \in {"capture", "for_init"}
           THEN templates' = templates
           ELSE loc'[w].list = loc[w].list]_vars

\* the positions of a thread between its relocation and its click
Acting == {"instant_sleep", "instant_wait", "click"}

\* C17: Stop never interrupts an action: once the relocation for an accepted
\* match has been issued the thread goes on to the click whatever the Run
\* State is, the click is for that match, and a Stop in between changes
\* nothing of the thread; the thread ends only after the post-click steps.
C17_StopDoesNotInterrupt ==
  [][\A w \in Workers :
       /\ (pc[w] \in Acting /\ pc'[w] # pc[w]) =>
            pc'[w] \in Acting \cup {"post_sleep"}
       /\ (pc[w] \in Acting /\ pc'[w] = "post_sleep") =>
            obs'[w].clicks =
              Append(obs[w].clicks, [i |-> loc[w].i, x |-> loc[w].click_x,
                                     y |-> loc[w].click_y])
       /\ (pc[w] \in Acting /\ is_running /\ ~is_running') =>
            (pc'[w] = pc[w] /\ loc'[w] = loc[w] /\ obs'[w] = obs[w])]_vars

\* the run was stopped after the relocation, and the click has been made
C17_Witness ==
  \E w \in Workers :
    /\ pc[w] = "post_sleep"
    /\ cancelled[w]
    /\ ~is_running
    /\ obs[w].moves = <<[i |-> 1, x |-> 102, y |-> 51]>>
    /\ obs[w].clicks = obs[w].moves

\* the key is the stop key of this text, whatever the case of the letters
\* (the keys of Keys against the texts "esc" and "Q")
IsStopKey(key, text) ==
  \/ key.code /\ key.char = <<"q">> /\ text = <<"Q">>
  \/ ~key.code /\ key.name = <<"e", "s", "c">> /\ text = <<"e", "s", "c">>

\* on_key_press(key) appends a stop request to the queue of the UI thread
Requests(key) ==
  /\ on_key_press(key)
  /\ after_queue' = Append(after_queue, Callback("stop_script", NoArg))

\* C18: a key press enqueues one stop request exactly when the Run State is
\* running and the key's name equals the configured stop key without regard
\* to case (it does then, and no other key press changes the queue); and
\* when the UI thread runs an enqueued request the controller is Idle
\* afterwards.
C18_HotkeyRequestsStop ==
  /\ [](\A key \in Keys :
         (is_running /\ IsStopKey(key, tkvar.stop_key_var)
            /\ Len(after_queue) < MaxQueue) => ENABLED Requests(key))
  /\ [][/\ \A key \in Keys :
             on_key_press(key) =>
               after_queue' =
                 IF is_running /\ IsStopKey(key, tkvar.stop_key_var)
                   THEN Append(after_queue, Callback("stop_script", NoArg))
                   ELSE after_queue
        /\ RunsStopRequest =>
             /\ ~is_running'
             /\ status_label' = Text("status_stopped")]_vars

\* the key q requested a stop of a run whose stop key is Q
C18_Witness ==
  /\ tkvar.stop_key_var = <<"Q">>
  /\ after_queue = <<Callback("stop_script", NoArg)>>
  /\ is_running
  /\ last_call = "start_ok"

\* the drags of the area selection: the rectangle and its size in each axis
Selected(drag) ==
  CASE drag = <<<<100, 50>>, <<300, 250>>>> -> Region(100, 50, 200, 200)
    [] drag = <<<<0, 0>>, <<10, 40>>>> -> Region(0, 0, 10, 40)

\* on_mouse_release(drag) stores the rectangle of the drag
Stores(drag) == on_mouse_release(drag) /\ search_region' = Selected(drag)

\* C19 as stated: a drag of at least 10 units in both axes is accepted and
\* becomes the Search Region.
C19_AtLeastTen ==
  \A drag \in {DragR1, DragThin} :
    (Selected(drag).width >= 10 /\ Selected(drag).height >= 10) =>
      ENABLED Stores(drag)

\* C19, amended: a drag is accepted and becomes the Search Region iff it is
\* more than 10 units in both axes; a drag of 10 units or less in an axis is
\* rejected: its rectangle is not stored and the Search Region stays as it was.
C19_MoreThanTen ==
  /\ [](\A drag \in {DragR1, DragThin} :
         (Selected(drag).width > 10 /\ Selected(drag).height > 10) =>
           ENABLED Stores(drag))
  /\ [][\A drag \in {DragR1, DragThin} :
          on_mouse_release(drag) =>
            search_region' =
              IF Selected(drag).width > 10 /\ Selected(drag).height > 10
                THEN Selected(drag) ELSE search_region]_vars

\* the area (100, 50, 200, 200) was selected during a run
C19_Witness ==
  /\ search_region = Region(100, 50, 200, 200)
  /\ \E w \in Workers : Live(w)

\* every thread that was started has ended
AllEnded == \A w \in Workers : ~Live(w)

\* C20: if a Stop is applied and no Start follows it (the Run State stays
\* cleared), every worker thread eventually terminates, given that each of its
\* calls returns; and a thread that has terminated takes no further step: it
\* captures and clicks nothing.
C20_StopTerminates ==
  /\ (<>[](~is_running)) => <>[]AllEnded
  /\ [][\A w \in Workers :
          pc[w] \in {"finished", "crashed"} =>
            (pc'[w] = pc[w] /\ obs'[w] = InitObs /\ loc'[w] = loc[w])]_vars

\* both runs were stopped and both threads have finished
C20_Witness ==
  /\ ~is_running
  /\ last_call = "stop_ok"
  /\ pc[1] = "finished"
  /\ pc[2] = "finished"

\* C21: at most one worker loop is active at any time: there are never two
\* worker threads that are both inside a cycle.
C21_OneWorkerLoop ==
  Cardinality({w \in Workers : InCycle(w)}) <= 1

\* C22: once a Stop has put the Stopped text into the info label, and as long
\* as no Start follows, no step replaces it: no Searching or Found message of
\* the worker is applied to the UI afterwards.
C22_StoppedIsLast ==
  [][(~is_running /\ ~is_running' /\ last_call = "stop_ok"
        /\ info_label = Text("info_stopped")) =>
       info_label' = Text("info_stopped")]_vars

\* C23: within one cycle the click target is translated with the Search Region
\* value that the cycle's capture used: the target is the centre of the match
\* in the captured frame, moved by the left and top of the captured region.
C23_RegionOfCapture ==
  \A w \in Workers :
    pc[w] \in Dispatching =>
      <<loc[w].click_x, loc[w].click_y>> =
        IF obs[w].region.some
          THEN <<obs[w].region.left + loc[w].center[1],
                 obs[w].region.top + loc[w].center[2]>>
          ELSE loc[w].center

\* C24: the Search Region changes only through an accepted area selection or
\* an explicit reset; every other operation leaves it unchanged.
C24_RegionFrame ==
  [][search_region' # search_region =>
       \/ \E drag \in {DragR1, DragThin} : on_mouse_release(drag)
       \/ reset_search_area]_vars

\* C25: each cycle of a worker issues at most one click.
C25_OneClickPerCycle ==
  \A w \in Workers : Len(obs[w].clicks) <= 1

\* C26: whenever the Run State is running the Template Store holds at least
\* one decoded template, and every template in it comes from a file that
\* cv2.imread decoded.
C26_RunningHasTemplates ==
  is_running =>
    /\ templates # <<>>
    /\ \A n \in 1..Len(templates) :
         templates[n].name \in {"a.png", "a.jpeg", "b.jpg", "big.png"}

\* a run is on with the folder that also holds the undecodable bad.png: the
\* store holds the two decoded templates a.png and b.jpg and nothing for bad.png
C26_Witness ==
  /\ is_running
  /\ last_call = "start_ok"
  /\ Len(templates) = 2
  /\ templates[1].name = "a.png"
  /\ templates[2].name = "b.jpg"

\* the positions of a thread between the test of line 641 it passed and the
\* click of the template it is handling
PastTemplateTest == {"match", "translate", "translate_x", "translate_y",
                     "notify", "move", "instant_sleep", "instant_wait", "click"}

\* stop_script cleared is_running while w ran, and no Start has set it since
AfterStop(w) == cancelled[w] /\ ~is_running

\* this step is a pyautogui.click / a pyautogui.screenshot of w
Clicks(w) == Len(obs'[w].clicks) > Len(obs[w].clicks)
Captures(w) == obs'[w].captures > obs[w].captures

\* C27, as stated: after a Stop that no Start follows, a worker thread issues
\* at most one further click, only for a template whose test of line 641 had
\* passed before the Stop (no template passes that test after the Stop, and a
\* click ends the handling of its template), and takes no screenshot.
C27_NoCaptureAfterStop ==
  [][\A w \in Workers :
       AfterStop(w) =>
         /\ pc'[w] \in PastTemplateTest => pc[w] \in PastTemplateTest
         /\ Clicks(w) => pc'[w] \notin PastTemplateTest
         /\ ~Captures(w)]_vars

\* C27, amended: after a Stop that no Start follows, a worker thread issues at
\* most one further click, only for a template whose test of line 641 had
\* passed before the Stop (no template passes that test after the Stop, and a
\* click ends the handling of its template); it takes at most one further
\* screenshot, only when its loop test of line 622 had passed before the Stop
\* (no loop test passes after the Stop, and the screenshot ends the wait for
\* it), and then clicks nothing.
C27_LastCycleAfterStop ==
  [][\A w \in Workers :
       AfterStop(w) =>
         /\ pc'[w] \in PastTemplateTest => pc[w] \in PastTemplateTest
         /\ Clicks(w) => pc'[w] \notin PastTemplateTest
         /\ pc'[w] = "capture" => pc[w] = "capture"
         /\ Captures(w) => pc'[w] \notin PastTemplateTest \cup {"capture"}]_vars

\* the Stop met the thread between the test of line 641 and the click, during
\* the instant-mode pause, and the thread has gone on to the click
C27_Witness ==
  \E w \in Workers :
    /\ AfterStop(w)
    /\ last_call = "stop_ok"
    /\ pc[w] = "click"
    /\ loc[w].settings.mode = "instant"

====
